---------------------------- MODULE Spec2Model ----------------------------
(***************************************************************************)
(* Control-plane logic of the MBMS modem PHY component (src/src/Phy.cpp,   *)
(* src/src/Phy.h): cell acquisition and synchronisation, subframe          *)
(* classification, the per-TTI MBSFN/MCCH scheduling decision and the      *)
(* channel registry, with the REST reader of the registry                  *)
(* (src/src/RestHandler.cpp) and the lock of the CAS processor's subframe  *)
(* buffer (src/src/CasFrameProcessor.h).                                   *)
(*                                                                         *)
(* Enumerated step values (MCCH repeat period, MCH scheduling period,      *)
(* signalling MCS, non-MBSFN region length) are held as the number that    *)
(* enum_to_number() yields for them, which is how Phy.cpp uses them.       *)
(***************************************************************************)
EXTENDS Integers, Sequences, FiniteSets, TLC

VARIABLES
  cell,             \* Phy::_cell
  mcch_table,       \* Phy::_mcch_table[10]
  mcch_configured,  \* Phy::_mcch_configured
  mch_configured,   \* Phy::_mch_configured
  decode_mcch,      \* Phy::_decode_mcch
  sib13,            \* Phy::_sib13
  mcch,             \* Phy::_mcch
  mch_info,         \* Phy::_mch_info
  dests,            \* Phy::_dests
  ret,              \* last value returned by mbsfn_config_for_tti to its caller
  prev,             \* an earlier returned value the caller kept
  cs,               \* what the last cell_search() call did and returned
  current_tti,      \* Phy::_tti
  sync,             \* what the last synchronize_subframe() call did and returned
  upd,              \* position of the processing path inside set_mbsfn_config
  obs,              \* what the last REST read of mch_info() got
  mutex,            \* CasFrameProcessor::_mutex: 0 when free, else the caller holding it
  callers,          \* position of each caller of rx_buffer()/unlock()
  api,              \* RestHandler's _require_bearer_token and _api_key
  reply,            \* the last REST request and what was answered to it
  set_params_args   \* arguments of the last call of the set-parameters callback

vars == <<cell, mcch_table, mcch_configured, mch_configured, decode_mcch,
          sib13, mcch, mch_info, dests, ret, prev, cs,
          current_tti, sync, upd, obs, mutex, callers,
          api, reply, set_params_args>>

\* State of the acquisition/synchronisation path, of the concurrent readers,
\* of the subframe-buffer lock and of the REST handler, which the scheduling
\* operations leave alone
syncvars == <<current_tti, sync>>

concvars == <<upd, obs>>

lockvars == <<mutex, callers>>

restvars == <<api, reply, set_params_args>>

phyvars == <<cell, mcch_table, mcch_configured, mch_configured, decode_mcch,
             sib13, mcch, mch_info, dests>>

-----------------------------------------------------------------------------
(* Bounds of the model *)

MaxTti == 165

Subframes == 0 .. 9

\* TTIs the properties range over: two full scheduling periods of 8 frames,
\* one of 16 frames, the frames at which a 32- and a 64-frame MCCH repeat
\* period come round again, and the top of the signed range.
FarTtis == (320 .. 329) \cup (640 .. 649) \cup (2147483630 .. 2147483639)
             \cup {2147483647}

TTIs == (0 .. MaxTti) \cup FarTtis

-----------------------------------------------------------------------------
(* 32-bit unsigned values, held as <<high half, low half>> *)

U32(x) == << (x \div 65536) % 65536, x % 65536 >>

U32Leq(a, b) == a[1] < b[1] \/ (a[1] = b[1] /\ a[2] <= b[2])

-----------------------------------------------------------------------------
(* Subframe classifier *)

is_cas_subframe_mut(tti) ==
  IF cell.mbms_dedicated
    THEN tti % 40 = 0
    ELSE (tti % 10 = 0 \/ tti % 10 = 4 \/ tti % 10 = 5)

is_cas_subframe(tti) ==
  IF cell.mbms_dedicated
    THEN tti % 40 = 0
    ELSE (tti % 10 = 0 \/ tti % 10 = 4 \/ tti % 10 = 5 \/ tti % 10 = 9)

is_mbsfn_subframe_mut(tti) ==
  IF cell.mbms_dedicated
    THEN ~is_cas_subframe(tti)
    ELSE (tti % 10 = 1 \/ tti % 10 = 2 \/ tti % 10 = 3 \/ tti % 10 = 4 \/
          tti % 10 = 6 \/ tti % 10 = 7 \/ tti % 10 = 8)

is_mbsfn_subframe(tti) ==
  IF cell.mbms_dedicated
    THEN ~is_cas_subframe(tti)
    ELSE ~is_cas_subframe(tti) /\
         (tti % 10 = 1 \/ tti % 10 = 2 \/ tti % 10 = 3 \/
          tti % 10 = 6 \/ tti % 10 = 7 \/ tti % 10 = 8)


-----------------------------------------------------------------------------
(* Records held by the Phy *)

\* srsran_cell_t _cell = {}
EmptyCell ==
  [id |-> 0, cp |-> "NORM", frame_type |-> "FDD", mbms_dedicated |-> FALSE,
   nof_prb |-> 0, mbsfn_prb |-> 0, nof_ports |-> 0]

\* One element of sib13_t::mbsfn_area_info_list
AreaInfo(area_id, rp, off, bitmap, r16, sig, bw) ==
  [mbsfn_area_id |-> area_id, non_mbsfn_region_len |-> 1, pmch_bandwidth |-> bw,
   mcch_cfg |-> [mcch_repeat_period |-> rp, mcch_offset |-> off,
                 sf_alloc_info |-> bitmap, sf_alloc_info_is_r16 |-> r16,
                 sig_mcs |-> sig]]

\* srsran::sib13_t _sib13 = {}
EmptySib13 ==
  [nof_mbsfn_area_info |-> 0,
   mbsfn_area_info_list |-> << AreaInfo(0, 32, 0, 0, FALSE, 2, 0) >>]

\* One element of mcch_msg_t::pmch_info_list, with its MBMS sessions
PmchInfoWith(period, alloc_end, mcs, sessions) ==
  [mch_sched_period |-> period, sf_alloc_end |-> alloc_end, data_mcs |-> mcs,
   nof_mbms_session_info |-> Len(sessions), mbms_session_info_list |-> sessions]

\* and without any
PmchInfo(period, alloc_end, mcs) == PmchInfoWith(period, alloc_end, mcs, << >>)

\* srsran::mcch_msg_t _mcch = {}
EmptyMcch == [nof_pmch_info |-> 0, pmch_info_list |-> << >>]

\* uint8_t _mcch_table[10] = {}
EmptyTable == [sf \in Subframes |-> 0]

\* The first MBSFN area of the stored SIB13
area_info == sib13.mbsfn_area_info_list[1]

-----------------------------------------------------------------------------
(* MCCH table generation (srsran/common/gen_mch_tables.h) *)

Bit(x, k) == (x \div (2 ^ k)) % 2

\* Legacy rule: six bits, most significant first, for subframes 1,2,3,6,7,8
generate_mcch_table(bitmap) ==
  [sf \in Subframes |->
     CASE sf = 1 -> Bit(bitmap, 5)
       [] sf = 2 -> Bit(bitmap, 4)
       [] sf = 3 -> Bit(bitmap, 3)
       [] sf = 6 -> Bit(bitmap, 2)
       [] sf = 7 -> Bit(bitmap, 1)
       [] sf = 8 -> Bit(bitmap, 0)
       [] OTHER  -> 0]

\* r16 rule: ten bits, most significant first, for subframes 0..9
generate_mcch_table_r16(bitmap) ==
  [sf \in Subframes |-> Bit(bitmap, 9 - sf)]

-----------------------------------------------------------------------------
(* Scheduling engine: Phy::mbsfn_config_for_tti *)

\* Phy.cpp:344-345, the MCCH condition
McchMatch_mut(tti) ==
  /\ (tti \div 10) % area_info.mcch_cfg.mcch_repeat_period
        = area_info.mcch_cfg.mcch_offset

McchMatch(tti) ==
  /\ (tti \div 10) % area_info.mcch_cfg.mcch_repeat_period
        = area_info.mcch_cfg.mcch_offset
  /\ mcch_table[tti % 10] = 1

\* Phy.cpp:357
fn_in_scheduling_period(i, tti) ==
  (tti \div 10) % mcch.pmch_info_list[i].mch_sched_period

\* Phy.cpp:358-363, as the mathematical integer before conversion to unsigned
sf_idx_int(i, tti) ==
  LET fn == fn_in_scheduling_period(i, tti)
      sf == tti % 10
  IN  IF cell.mbms_dedicated
        THEN fn * 10 + sf - (fn \div 4) - 1
        ELSE fn * 6 + (IF sf < 6 THEN sf - 1 ELSE sf - 3)

\* unsigned sf_idx (32 bits)
sf_idx(i, tti) == U32(sf_idx_int(i, tti))

\* Phy.cpp:365, for channel i (1-based here, i-1 in the code)
InWindow_mut(i, tti) ==
  sf_idx_int(i, tti) <= mcch.pmch_info_list[i].sf_alloc_end

InWindow(i, tti) ==
  U32Leq(sf_idx(i, tti), U32(mcch.pmch_info_list[i].sf_alloc_end))

\* Phy.cpp:356,365,376: the first channel, in declared order, whose window
\* holds the TTI; 0 when the loop ends without a match
FirstChannel_mut(tti) ==
  LET S == {i \in 1 .. mcch.nof_pmch_info : InWindow(i, tti)}
  IN  IF S = {} THEN 0 ELSE CHOOSE i \in S : \A j \in S : i >= j

FirstChannel(tti) ==
  LET S == {i \in 1 .. mcch.nof_pmch_info : InWindow(i, tti)}
  IN  IF S = {} THEN 0 ELSE CHOOSE i \in S : \A j \in S : i <= j

\* Phy.cpp:367-368, the signalling-subframe condition for channel i
IsSigSubframe_mut(i, tti) ==
  \/ (i = 1 /\ fn_in_scheduling_period(i, tti) = 0)
  \/ (i > 1 /\ U32(mcch.pmch_info_list[i - 1].sf_alloc_end + 1) = sf_idx(i, tti))

IsSigSubframe(i, tti) ==
  \/ (i = 1 /\ fn_in_scheduling_period(i, tti) = 0 /\ tti % 10 = 1)
  \/ (i > 1 /\ U32(mcch.pmch_info_list[i - 1].sf_alloc_end + 1) = sf_idx(i, tti))

\* The struct as declared and partly assigned at Phy.cpp:326-328. cfg is a
\* local that is not initialised: the fields the taken path does not assign
\* hold whatever junk the stack held; area is the caller's variable, which
\* the function writes on a channel match only.
cfg_declared(area_in, junk) ==
  [enable |-> FALSE, is_mcch |-> FALSE,
   mbsfn_area_id |-> junk.mbsfn_area_id,
   mbsfn_mcs |-> junk.mbsfn_mcs,
   non_mbsfn_region_length |-> junk.non_mbsfn_region_length,
   area |-> area_in]

\* Phy.cpp:336-381, the decision once an MCCH is configured
decision_when_configured_mut(tti, area_in, junk) ==
  LET cfg1 == [cfg_declared(area_in, junk) EXCEPT
                 !.mbsfn_area_id = area_info.mbsfn_area_id,
                 !.non_mbsfn_region_length = area_info.non_mbsfn_region_len]
      i    == FirstChannel(tti)
  IN  IF McchMatch(tti) /\ decode_mcch
        THEN [cfg1 EXCEPT !.mbsfn_mcs = area_info.mcch_cfg.sig_mcs,
                          !.enable = TRUE, !.is_mcch = TRUE]
        ELSE IF mch_configured /\ i # 0
               THEN [cfg1 EXCEPT
                       !.area = i - 1,
                       !.mbsfn_mcs =
                          IF IsSigSubframe(i, tti)
                            THEN area_info.mcch_cfg.sig_mcs
                            ELSE mcch.pmch_info_list[i].data_mcs,
                       !.enable = TRUE]
               ELSE cfg1

decision_when_configured(tti, area_in, junk) ==
  LET cfg1 == [cfg_declared(area_in, junk) EXCEPT
                 !.mbsfn_area_id = area_info.mbsfn_area_id,
                 !.non_mbsfn_region_length = area_info.non_mbsfn_region_len]
      i    == FirstChannel(tti)
  IN  IF McchMatch(tti)
        THEN IF decode_mcch
               THEN [cfg1 EXCEPT !.mbsfn_mcs = area_info.mcch_cfg.sig_mcs,
                                 !.enable = TRUE, !.is_mcch = TRUE]
               ELSE cfg1
        ELSE IF mch_configured /\ i # 0
               THEN [cfg1 EXCEPT
                       !.area = i - 1,
                       !.mbsfn_mcs =
                          IF IsSigSubframe(i, tti)
                            THEN area_info.mcch_cfg.sig_mcs
                            ELSE mcch.pmch_info_list[i].data_mcs,
                       !.enable = TRUE]
               ELSE cfg1

mbsfn_config_for_tti_mut(tti, area_in, junk) ==
  decision_when_configured(tti, area_in, junk)

\* Phy::mbsfn_config_for_tti
mbsfn_config_for_tti(tti, area_in, junk) ==
  IF ~mcch_configured
    THEN cfg_declared(area_in, junk)
    ELSE decision_when_configured(tti, area_in, junk)

-----------------------------------------------------------------------------
(* Inputs *)

\* SIB13 messages handed to set_mch_scheduling_info: one area with repeat
\* period 32 or 64 frames, offset 0 or 1, and a subframe bitmap that marks
\* subframe 1 (legacy), subframe 0 (r16) or none; one that advertises two
\* areas; one that advertises none and carries a PMCH bandwidth.
Bitmaps == { <<32, FALSE>>, <<512, TRUE>>, <<0, FALSE>> }

Sib13s ==
  { [nof_mbsfn_area_info |-> 1,
     mbsfn_area_info_list |-> << AreaInfo(7, rp, off, b[1], b[2], 2, 0) >>] :
       rp \in {32, 64}, off \in {0, 1}, b \in Bitmaps }
  \cup
  { [nof_mbsfn_area_info |-> 2,
     mbsfn_area_info_list |-> << AreaInfo(9, 32, 0, 4, FALSE, 7, 25) >>],
    [nof_mbsfn_area_info |-> 0,
     mbsfn_area_info_list |-> << AreaInfo(3, 64, 1, 16, FALSE, 13, 25) >>] }

\* MCCH messages handed to set_mbsfn_config
McchMsg(list) == [nof_pmch_info |-> Len(list), pmch_info_list |-> list]

McchMsgs ==
  { McchMsg(<< >>),
    McchMsg(<< PmchInfo(32, 9, 5) >>),
    McchMsg(<< PmchInfo(8, 4, 5), PmchInfo(8, 20, 9) >>),
    McchMsg(<< PmchInfo(8, 70, 5), PmchInfo(8, 30, 9) >>),
    McchMsg(<< PmchInfo(16, 9, 5), PmchInfo(8, 12, 9) >>) }

\* What an unassigned field of the returned struct may hold
Junk ==
  { [mbsfn_area_id |-> 0, mbsfn_mcs |-> 0, non_mbsfn_region_length |-> 0],
    [mbsfn_area_id |-> 255, mbsfn_mcs |-> 28, non_mbsfn_region_length |-> 2] }

\* The caller's channel-index variable before the call
AreaIns == {3}

\* TTIs for which the caller asks a decision
CallTtis == {0, 1, 11}

\* The Cell Model after a successful acquisition, in either mode
AcquiredCells ==
  { [id |-> 1, cp |-> "NORM", frame_type |-> "FDD", mbms_dedicated |-> d,
     nof_prb |-> 50, mbsfn_prb |-> 50, nof_ports |-> 1] : d \in BOOLEAN }

NoCall == [called |-> FALSE]

NoSearch == [called |-> FALSE]

NoSync == [called |-> FALSE]

\* The processing path is not inside set_mbsfn_config
Idle == [pc |-> "idle"]

NoRead == [called |-> FALSE]

\* Callers of CasFrameProcessor::rx_buffer()
NofCallers == 5

Callers == 1 .. NofCallers

-----------------------------------------------------------------------------
(* Operations *)

\* Phy.cpp:237-248: the table is zeroed and generated from the first area's
\* subframe-allocation bitmap, by the rule its format flag selects
mcch_table_for_mut(a) == generate_mcch_table(a.mcch_cfg.sf_alloc_info)

mcch_table_for(a) ==
  IF a.mcch_cfg.sf_alloc_info_is_r16
    THEN generate_mcch_table_r16(a.mcch_cfg.sf_alloc_info)
    ELSE generate_mcch_table(a.mcch_cfg.sf_alloc_info)

\* Phy::set_mch_scheduling_info
set_mch_scheduling_info(s) ==
  LET a == s.mbsfn_area_info_list[1] IN
  /\ cell' = IF a.pmch_bandwidth # 0
               THEN [cell EXCEPT !.mbsfn_prb = a.pmch_bandwidth]
               ELSE cell
  /\ IF s.nof_mbsfn_area_info > 0
       THEN /\ sib13' = s
            /\ mcch_table' = mcch_table_for(a)
            /\ mcch_configured' = TRUE
       ELSE UNCHANGED <<sib13, mcch_table, mcch_configured>>
  /\ ret' = NoCall /\ prev' = NoCall
  /\ UNCHANGED <<mch_configured, decode_mcch, mcch, mch_info, dests, cs>>
  /\ UNCHANGED <<syncvars, concvars, lockvars, restvars>>

\* Bitwise or of two naturals
RECURSIVE BitOr(_, _)
BitOr(a, b) ==
  IF a = 0 THEN b
  ELSE IF b = 0 THEN a
  ELSE (IF a % 2 = 1 \/ b % 2 = 1 THEN 1 ELSE 0) + 2 * BitOr(a \div 2, b \div 2)

HexDigit(n) ==
  << "0", "1", "2", "3", "4", "5", "6", "7",
     "8", "9", "a", "b", "c", "d", "e", "f" >>[n + 1]

\* printf's %x: the hexadecimal digits of n, without padding
RECURSIVE Hex(_)
Hex(n) == IF n < 16 THEN << HexDigit(n) >> ELSE Hex(n \div 16) \o << HexDigit(n % 16) >>

\* printf's %0wx: padded with zeros to at least w digits, never cut
HexPad_mut(n, w) == Hex(n)

HexPad(n, w) ==
  LET h == Hex(n) IN
  IF Len(h) >= w THEN h ELSE [k \in 1 .. w |-> IF k <= w - Len(h) THEN "0" ELSE h[k - (w - Len(h))]]

\* Phy.cpp:287-294, the TMGI string of a session
tmgi_string_mut(t) ==
  HexPad(BitOr(BitOr(t.serviced_id[3], t.serviced_id[2] * 256),
               t.serviced_id[1] * 65536), 6)
  \o HexPad(BitOr(t.mcc[1] * 16, t.mcc[2]), 2)
  \o HexPad(BitOr((IF t.nof_mnc_digits = 2 THEN 15 ELSE t.mnc[3]) * 16, t.mcc[3]), 2)
  \o HexPad(BitOr(t.mnc[2] * 16, t.mnc[1]), 2)

tmgi_string(t) ==
  HexPad(BitOr(BitOr(t.serviced_id[3], t.serviced_id[2] * 256),
               t.serviced_id[1] * 65536), 6)
  \o HexPad(BitOr(t.mcc[2] * 16, t.mcc[1]), 2)
  \o HexPad(BitOr((IF t.nof_mnc_digits = 2 THEN 15 ELSE t.mnc[3]) * 16, t.mcc[3]), 2)
  \o HexPad(BitOr(t.mnc[2] * 16, t.mnc[1]), 2)

\* std::map operator[] on _dests[i][lcid]: the entry is created empty when
\* it is absent
dests_touch(d, i, lcid) ==
  LET inner == IF i \in DOMAIN d THEN d[i] ELSE << >>
      inner2 == IF lcid \in DOMAIN inner THEN inner
                ELSE [l \in DOMAIN inner \cup {lcid} |->
                        IF l = lcid THEN "" ELSE inner[l]]
  IN  [k \in DOMAIN d \cup {i} |-> IF k = i THEN inner2 ELSE d[k]]

\* _dests after the lookups of sessions 1 .. j of channel i (1-based)
RECURSIVE dests_after_sessions(_, _, _, _)
dests_after_sessions(d, m, i, j) ==
  IF j = 0 THEN d
  ELSE dests_touch(dests_after_sessions(d, m, i, j - 1), i - 1,
                   m.pmch_info_list[i].mbms_session_info_list[j].lc_ch_id)

\* _dests after the lookups of channels 1 .. i
RECURSIVE dests_after_channels(_, _, _)
dests_after_channels(d, m, i) ==
  IF i = 0 THEN d
  ELSE dests_after_sessions(dests_after_channels(d, m, i - 1), m, i,
                            m.pmch_info_list[i].nof_mbms_session_info)

\* Phy.cpp:265-301, the reporting view built from the message
build_mch_info_mut(d, m) ==
  [i \in 1 .. m.nof_pmch_info |->
     [mcs |-> m.pmch_info_list[i].data_mcs,
      mtchs |->
        [j \in 1 .. m.pmch_info_list[i].nof_mbms_session_info |->
           LET si == m.pmch_info_list[i].mbms_session_info_list[j] IN
           [lcid |-> si.lc_ch_id,
            tmgi |-> tmgi_string(si.tmgi),
            dest |-> ""]]]]

build_mch_info(d, m) ==
  [i \in 1 .. m.nof_pmch_info |->
     [mcs |-> m.pmch_info_list[i].data_mcs,
      mtchs |->
        [j \in 1 .. m.pmch_info_list[i].nof_mbms_session_info |->
           LET si == m.pmch_info_list[i].mbms_session_info_list[j] IN
           [lcid |-> si.lc_ch_id,
            tmgi |-> tmgi_string(si.tmgi),
            dest |-> IF (i - 1) \in DOMAIN d /\ si.lc_ch_id \in DOMAIN d[i - 1]
                       THEN d[i - 1][si.lc_ch_id] ELSE ""]]]]

\* Phy.cpp:265, _mch_info.clear()
mch_info_clear_mut(v) == v

mch_info_clear(v) == << >>

\* Phy::set_mbsfn_config
set_mbsfn_config(m) ==
  /\ mcch' = m
  /\ mch_configured' = TRUE
  /\ mch_info' = mch_info_clear(mch_info) \o build_mch_info(dests, m)
  /\ dests' = dests_after_channels(dests, m, m.nof_pmch_info)
  /\ ret' = NoCall /\ prev' = NoCall
  /\ UNCHANGED <<cell, mcch_table, mcch_configured, decode_mcch, sib13, cs>>
  /\ UNCHANGED <<syncvars, concvars, lockvars, restvars>>

\* Phy::set_dest_for_lcid: _dests[mch_idx][lcid] = dest
set_dest_for_lcid(mch_idx, lcid, dest) ==
  /\ dests' = [k \in DOMAIN dests \cup {mch_idx} |->
                IF k = mch_idx
                  THEN LET inner == IF mch_idx \in DOMAIN dests
                                      THEN dests[mch_idx] ELSE << >>
                       IN  [l \in DOMAIN inner \cup {lcid} |->
                              IF l = lcid THEN dest ELSE inner[l]]
                  ELSE dests[k]]
  /\ UNCHANGED <<cell, mcch_table, mcch_configured, mch_configured, decode_mcch,
                 sib13, mcch, mch_info, ret, prev, cs>>
  /\ UNCHANGED <<syncvars, concvars, lockvars, restvars>>

\* Phy::reset
reset_mut ==
  /\ mcch_configured' = FALSE
  /\ ret' = NoCall /\ prev' = NoCall
  /\ UNCHANGED <<cell, mcch_table, mch_configured, decode_mcch, sib13, mcch,
                 mch_info, dests, cs>>
  /\ UNCHANGED <<syncvars, concvars, lockvars, restvars>>

reset ==
  /\ mcch_configured' = FALSE
  /\ mch_configured' = FALSE
  /\ ret' = NoCall /\ prev' = NoCall
  /\ UNCHANGED <<cell, mcch_table, decode_mcch, sib13, mcch, mch_info, dests, cs>>
  /\ UNCHANGED <<syncvars, concvars, lockvars, restvars>>

\* Phy::set_decode_mcch
set_decode_mcch(d) ==
  /\ decode_mcch' = d
  /\ ret' = NoCall /\ prev' = NoCall
  /\ UNCHANGED <<cell, mcch_table, mcch_configured, mch_configured, sib13, mcch,
                 mch_info, dests, cs>>
  /\ UNCHANGED <<syncvars, concvars, lockvars, restvars>>

\* The per-TTI consultation: the caller classifies the subframe and asks
\* for its decision, and holds the values returned; keep says whether it
\* also holds on to the ones returned before.
mbsfn_config_call(tti, area_in, junk, keep) ==
  /\ ret' = [called |-> TRUE, tti |-> tti,
             cas |-> is_cas_subframe(tti),
             mbsfn |-> is_mbsfn_subframe(tti),
             cfg |-> mbsfn_config_for_tti(tti, area_in, junk)]
  /\ prev' = IF keep THEN ret ELSE prev
  /\ UNCHANGED <<phyvars, cs, syncvars, concvars, lockvars, restvars>>

\* Phy.cpp:165-166: the composed cell becomes the Cell Model, its multicast
\* resource-block count set to the cell-wide one
store_cell_mut(new_cell) == new_cell

store_cell(new_cell) == [new_cell EXCEPT !.mbsfn_prb = new_cell.nof_prb]

\* Phy.cpp:36-38
kMaxSfn == 1024

kSfnOffset == 4

kSubframesPerFrame == 10

\* uint32_t arithmetic on the two 16-bit halves: sum and product modulo 2^32,
\* remainder by a divisor below 2^15
U32Add(a, b) ==
  LET lo == a[2] + b[2] IN
  << (a[1] + b[1] + lo \div 65536) % 65536, lo % 65536 >>

U32Mul(a, k) ==
  LET lo == a[2] * k IN
  << (a[1] * k + lo \div 65536) % 65536, lo % 65536 >>

U32Mod(a, m) == ((a[1] % m) * (65536 % m) + a[2]) % m

\* Phy.cpp:77/81 and 146/150: sfn is a uint32_t and sfn_offset an int, so the
\* offset is converted to unsigned and sum and product wrap at 2^32 before
\* the remainder is taken.
sfn_of_mut(dedicated, sfn, sfn_offset) ==
  LET x == IF dedicated THEN sfn + sfn_offset * kSfnOffset ELSE sfn + sfn_offset
  IN  IF x >= 0 THEN x % kMaxSfn ELSE 0 - ((0 - x) % kMaxSfn)

sfn_of(dedicated, sfn, sfn_offset) ==
  IF dedicated
    THEN U32Mod(U32Add(U32(sfn), U32Mul(U32(sfn_offset), kSfnOffset)), kMaxSfn)
    ELSE U32Mod(U32Add(U32(sfn), U32(sfn_offset)), kMaxSfn)

\* Phy::cell_search, as a function of what the PHY engine reports:
\*   scan      result of srsran_ue_cellsearch_scan (<0 error, 0 no cell)
\*   fc        the strongest cell found
\*   prb1,prb2 results of srsran_ue_mib_sync_set_cell_prb (0 is success)
\*   dec1,dec2 results of srsran_ue_mib_sync_decode_prb (1 found, 0 not
\*             found, <0 error)
\*   mib       what the decode and the unpack rule write into the cell
\*   sfn, sfn_offset  the frame number the unpack rule reads from the MIB and
\*             the offset the decode reports
\*   valid     verdict of srsran_cell_isvalid on the composed cell
\*   set_sync, set_mib  results of srsran_ue_sync_set_cell, srsran_ue_mib_set_cell
\* The result names the value returned, the Cell Model afterwards, the MIB
\* decode attempts made (mode assumed and result), the number of init() calls
\* and the frame number computed and logged (-1 when the call computes none).
cell_search_result(c, in) ==
  LET new0 == [EmptyCell EXCEPT !.id = in.fc.cell_id, !.cp = in.fc.cp,
                                !.frame_type = in.fc.frame_type,
                                !.mbms_dedicated = TRUE]
      try1 == [mode |-> "dedicated", result |-> in.dec1]
      try2 == [mode |-> "mixed", result |-> in.dec2]
      fail(att, n) == [ret |-> FALSE, cell |-> c, attempts |-> att, inits |-> n,
                       sfn |-> -1]
      decoded(new, att, n) ==
        LET new_cell == [new EXCEPT !.nof_prb = in.mib.nof_prb,
                                    !.nof_ports = in.mib.nof_ports]
            stored == store_cell(new_cell)
            sfn    == sfn_of(new.mbms_dedicated, in.sfn, in.sfn_offset)
        IN  IF ~in.valid
              THEN [fail(att, n) EXCEPT !.sfn = sfn]
              ELSE IF in.set_sync # 0 \/ in.set_mib # 0
                     THEN [ret |-> FALSE, cell |-> stored, attempts |-> att,
                           inits |-> n, sfn |-> sfn]
                     ELSE [ret |-> TRUE, cell |-> stored, attempts |-> att,
                           inits |-> n, sfn |-> sfn]
  IN  IF in.scan <= 0
        THEN fail(<< >>, 0)
        ELSE IF in.prb1 # 0
          THEN fail(<< >>, 0)
          ELSE IF in.dec1 = 0
            THEN IF in.prb2 # 0
                   THEN fail(<< try1 >>, 1)
                   ELSE IF in.dec2 = 1
                          THEN decoded([new0 EXCEPT !.mbms_dedicated = FALSE],
                                       << try1, try2 >>, 1)
                          ELSE fail(<< try1, try2 >>, 1)
            ELSE IF in.dec1 = 1
                   THEN decoded(new0, << try1 >>, 0)
                   ELSE fail(<< try1 >>, 0)

\* Cells the scan may report as strongest
FoundCells ==
  { [cell_id |-> 1, cp |-> "NORM", frame_type |-> "FDD"],
    [cell_id |-> 2, cp |-> "EXT", frame_type |-> "FDD"] }

\* Resource-block and port counts a decoded MIB may carry
Mibs == { [nof_prb |-> p, nof_ports |-> 1] : p \in {25, 50} }

Results == {-1, 0, 1}

Statuses == {-1, 0}

AllSearchInputs ==
  [scan : Results, fc : FoundCells, prb1 : Statuses, dec1 : Results,
   prb2 : Statuses, dec2 : Results, mib : Mibs, sfn : {8}, sfn_offset : {0},
   valid : BOOLEAN, set_sync : Statuses, set_mib : Statuses]

\* A report of the engine that cell_search() does not come to ask for is
\* left at one value: it cannot bear on the call
Consulted(in) ==
  LET c_prb1 == in.scan > 0
      c_dec1 == c_prb1 /\ in.prb1 = 0
      c_prb2 == c_dec1 /\ in.dec1 = 0
      c_dec2 == c_prb2 /\ in.prb2 = 0
      dec    == (c_dec1 /\ in.dec1 = 1) \/ (c_dec2 /\ in.dec2 = 1)
      c_sync == dec /\ in.valid
      c_mib  == c_sync /\ in.set_sync = 0
  IN  /\ c_prb1 \/ (in.prb1 = 0 /\ in.fc.cell_id = 1)
      /\ c_dec1 \/ in.dec1 = 0
      /\ c_prb2 \/ in.prb2 = 0
      /\ c_dec2 \/ in.dec2 = 0
      /\ dec \/ (in.mib.nof_prb = 25 /\ in.valid)
      /\ c_sync \/ in.set_sync = 0
      /\ c_mib \/ in.set_mib = 0

SearchInputs == {in \in AllSearchInputs : Consulted(in)}

\* A call of Phy::cell_search; cs keeps what the engine reported, what the
\* call did and the Cell Model it started from
cell_search(in) ==
  LET r == cell_search_result(cell, in) IN
  /\ cell' = r.cell
  /\ cs' = [called |-> TRUE, ret |-> r.ret, attempts |-> r.attempts,
            inits |-> r.inits, sfn |-> r.sfn, cell_before |-> cell, in |-> in]
  /\ UNCHANGED <<mcch_table, mcch_configured, mch_configured, decode_mcch,
                 sib13, mcch, mch_info, dests, ret, prev>>
  /\ UNCHANGED <<syncvars, concvars, lockvars, restvars>>

\* Phy.cpp:74-82, the frame number of the MIB synchronize_subframe decoded
sync_sfn(c, in) == sfn_of(c.mbms_dedicated, in.mib.sfn, in.sfn_offset)

\* Phy::synchronize_subframe, as a function of what the PHY engine reports:
\*   zerocopy   result of srsran_ue_sync_zerocopy (<0 error, 0 not aligned,
\*              1 aligned)
\*   sfidx      srsran_ue_sync_get_sfidx
\*   n          result of srsran_ue_mib_decode (1 decoded)
\*   mib        what the unpack rule writes: resource-block count and frame number
\*   sfn_offset the decode offset
\* c is the Cell Model and t the current TTI before the call.
synchronize_subframe_result_mut(c, t, in) ==
  IF in.zerocopy = 1 /\ in.sfidx = 0
    THEN [ret |-> TRUE,
          cell |-> [c EXCEPT !.nof_prb = in.mib.nof_prb],
          tti |-> sync_sfn(c, in) * kSubframesPerFrame]
    ELSE [ret |-> FALSE, cell |-> c, tti |-> t]

synchronize_subframe_result(c, t, in) ==
  IF in.zerocopy = 1 /\ in.sfidx = 0 /\ in.n = 1
    THEN [ret |-> TRUE,
          cell |-> [c EXCEPT !.nof_prb = in.mib.nof_prb],
          tti |-> sync_sfn(c, in) * kSubframesPerFrame]
    ELSE [ret |-> FALSE, cell |-> c, tti |-> t]

\* Reports of the engine to synchronize_subframe(); one it does not come to
\* ask for is left at one value
SyncMibs == { [nof_prb |-> p, sfn |-> f] : p \in {25, 50}, f \in {8, 512, 1020} }

AllSyncInputs ==
  [zerocopy : Results, sfidx : {0, 3}, n : Results, mib : SyncMibs,
   sfn_offset : {0, 3}]

SyncConsulted(in) ==
  /\ in.zerocopy = 1 \/ in.sfidx = 0
  /\ (in.zerocopy = 1 /\ in.sfidx = 0) \/ in.n = 0
  /\ (in.zerocopy = 1 /\ in.sfidx = 0 /\ in.n = 1)
        \/ (in.mib = [nof_prb |-> 25, sfn |-> 8] /\ in.sfn_offset = 0)

SyncInputs == {in \in AllSyncInputs : SyncConsulted(in)}

\* A call of Phy::synchronize_subframe
synchronize_subframe(in) ==
  LET r == synchronize_subframe_result(cell, current_tti, in) IN
  /\ cell' = r.cell
  /\ current_tti' = r.tti
  /\ sync' = [called |-> TRUE, ret |-> r.ret, in |-> in]
  /\ UNCHANGED <<mcch_table, mcch_configured, mch_configured, decode_mcch,
                 sib13, mcch, mch_info, dests, ret, prev, cs>>
  /\ UNCHANGED <<concvars, lockvars, restvars>>

\* Phy::set_nof_mbsfn_prb
set_nof_mbsfn_prb(prb) ==
  /\ cell' = [cell EXCEPT !.mbsfn_prb = prb]
  /\ UNCHANGED <<mcch_table, mcch_configured, mch_configured, decode_mcch,
                 sib13, mcch, mch_info, dests, ret, prev, cs>>
  /\ UNCHANGED <<syncvars, concvars, lockvars, restvars>>

-----------------------------------------------------------------------------
(* The REST handler: API key check, GET and PUT *)

\* RestHandler.cpp:62, the key used when the configuration enables the
\* requirement and names no key
DefaultApiKey == "106cd60-76c8-4c37-944c-df21aa690c1e"

\* RestHandler.cpp:60-64: what the constructor reads from the configuration.
\* c.enabled is modem.restful_api.api_key.enabled; c.has_key tells whether
\* modem.restful_api.api_key.key is set and c.key is its value. _api_key
\* stays the empty string when the requirement is off.
RestHandler(c) ==
  [require_bearer_token |-> c.enabled,
   api_key |-> IF c.enabled
                 THEN (IF c.has_key THEN c.key ELSE DefaultApiKey)
                 ELSE ""]

\* Configurations: requirement off, on with a key, on without one
ApiConfigs ==
  { [enabled |-> FALSE, has_key |-> FALSE, key |-> ""],
    [enabled |-> TRUE, has_key |-> TRUE, key |-> "s3cret"],
    [enabled |-> TRUE, has_key |-> FALSE, key |-> ""] }

\* RestHandler.cpp:80-81 and 196-197: the request passes when no token is
\* required or its Authorization header (the empty string when the request
\* has none) is "Bearer " followed by the key
authorized_mut(auth) ==
  ~api.require_bearer_token \/ auth = "Bearer " \o api.api_key
    \/ auth = api.api_key

authorized(auth) ==
  ~api.require_bearer_token \/ auth = "Bearer " \o api.api_key

NoRequest == [called |-> FALSE]

NoBody == [kind |-> "none"]

\* RestHandler.cpp:89-113, the body of GET status as far as it comes from Phy
status_body ==
  [kind |-> "status",
   nof_prb |-> IF cell.nof_prb = cell.mbsfn_prb THEN cell.nof_prb
                                                ELSE cell.mbsfn_prb,
   cell_id |-> cell.id]

\* RestHandler::get. path is the split request path (first element only is
\* looked at), auth the Authorization header, rd what the SDR reader
\* reports. A path the handler does not know gets no reply.
rest_get(path, auth, rd) ==
  /\ reply' =
       [called |-> TRUE, method |-> "GET", path |-> path, auth |-> auth,
        passed |-> authorized(auth)] @@
       (IF ~authorized(auth)
          THEN [status |-> "Unauthorized", body |-> NoBody]
        ELSE IF path = << >>
          THEN [status |-> "NotFound", body |-> NoBody]
        ELSE IF path[1] = "status"
          THEN [status |-> "OK", body |-> status_body]
        ELSE IF path[1] = "sdr_params"
          THEN [status |-> "OK", body |-> [kind |-> "sdr_params", sdr |-> rd]]
        ELSE IF path[1] = "mch_info"
          THEN [status |-> "OK", body |-> [kind |-> "mch_info", view |-> mch_info]]
        ELSE [status |-> "none", body |-> NoBody])
  /\ UNCHANGED <<phyvars, ret, prev, cs, syncvars, concvars, lockvars>>
  /\ UNCHANGED <<api, set_params_args>>

\* RestHandler.cpp:206-227: the arguments PUT sdr_params hands to the
\* set-parameters callback: the reader's values, replaced by the fields the
\* JSON body has
put_params(json, rd) ==
  [antenna |-> IF "antenna" \in DOMAIN json THEN json.antenna ELSE rd.antenna,
   frequency |-> IF "frequency" \in DOMAIN json THEN json.frequency
                                                ELSE rd.frequency,
   gain |-> IF "gain" \in DOMAIN json THEN json.gain ELSE rd.gain,
   sample_rate |-> rd.sample_rate,
   filter_bw |-> rd.filter_bw]

\* RestHandler::put
rest_put(path, auth, json, rd) ==
  LET calls == authorized(auth) /\ path # << >> /\ path[1] = "sdr_params" IN
  /\ reply' =
       [called |-> TRUE, method |-> "PUT", path |-> path, auth |-> auth,
        passed |-> authorized(auth), body |-> NoBody,
        status |-> IF ~authorized(auth) THEN "Unauthorized"
                   ELSE IF path = << >> THEN "NotFound"
                   ELSE IF path[1] = "sdr_params" THEN "OK"
                   ELSE "none"]
  /\ set_params_args' =
       IF calls THEN [called |-> TRUE, args |-> put_params(json, rd)]
                ELSE set_params_args
  /\ UNCHANGED <<phyvars, ret, prev, cs, syncvars, concvars, lockvars>>
  /\ UNCHANGED api

-----------------------------------------------------------------------------
(* The scheduling configuration and its per-TTI decisions *)

Init ==
  /\ cell \in AcquiredCells
  /\ mcch_table = EmptyTable
  /\ mcch_configured = FALSE
  /\ mch_configured = FALSE
  /\ decode_mcch = FALSE
  /\ sib13 = EmptySib13
  /\ mcch = EmptyMcch
  /\ mch_info = << >>
  /\ dests = << >>
  /\ ret = NoCall
  /\ prev = NoCall
  /\ cs = NoSearch
  /\ current_tti = 0
  /\ sync = NoSync
  /\ upd = Idle
  /\ obs = NoRead
  /\ mutex = 0
  /\ callers = [c \in Callers |-> "idle"]
  /\ api = RestHandler([enabled |-> FALSE, has_key |-> FALSE, key |-> ""])
  /\ reply = NoRequest
  /\ set_params_args = NoCall

Next ==
  \/ \E s \in Sib13s : set_mch_scheduling_info(s)
  \/ \E m \in McchMsgs : set_mbsfn_config(m)
  \/ reset
  \/ \E d \in BOOLEAN : set_decode_mcch(d)
  \/ \E t \in CallTtis, a \in AreaIns, j \in Junk :
        mbsfn_config_call(t, a, j, FALSE)

Spec == Init /\ [][Next]_vars

-----------------------------------------------------------------------------
(* Properties *)

\* All decisions the function can return for a TTI in the current state
Decisions(tti) ==
  { mbsfn_config_for_tti(tti, a, j) : a \in AreaIns, j \in Junk }

\* C1: for every TTI, is_cas_subframe is true exactly when tti mod 40 = 0 in
\* a multicast-dedicated cell and when tti mod 10 is in {0,4,5,9} in a mixed
\* cell; is_mbsfn_subframe is true exactly when tti mod 40 # 0 (dedicated) or
\* tti mod 10 is in {1,2,3,6,7,8} (mixed).
C1_Classifier ==
  \A t \in TTIs :
    /\ is_cas_subframe(t) <=>
         IF cell.mbms_dedicated THEN t % 40 = 0 ELSE (t % 10) \in {0, 4, 5, 9}
    /\ is_mbsfn_subframe(t) <=>
         IF cell.mbms_dedicated THEN t % 40 # 0 ELSE (t % 10) \in {1, 2, 3, 6, 7, 8}

\* A mixed cell in which the caller classified TTI 1 as MBSFN-eligible
C1_Witness ==
  /\ ~cell.mbms_dedicated
  /\ ret.called /\ ret.tti = 1 /\ ret.mbsfn /\ ~ret.cas
  /\ is_cas_subframe(4)

\* C2: for every TTI and either cell mode, is_cas_subframe and
\* is_mbsfn_subframe are never both true, so exactly one of CAS,
\* MBSFN-eligible and neither holds.
C2_Exclusive ==
  \A t \in TTIs : ~(is_cas_subframe(t) /\ is_mbsfn_subframe(t))

\* A dedicated cell in which the caller classified TTI 0 as CAS and not MBSFN
C2_Witness ==
  /\ cell.mbms_dedicated
  /\ ret.called /\ ret.tti = 0 /\ ret.cas /\ ~ret.mbsfn
  /\ is_mbsfn_subframe(1)

\* No SIB13 was ever accepted: an accepted SIB13 advertises at least one
\* area and stays stored, reset() included.
NeverAccepted == sib13.nof_mbsfn_area_info = 0

\* C3: while no SIB13 has ever been accepted, the decision is disabled
\* (enable and is_mcch both false) for every TTI, whatever the cell mode,
\* the MCCH-decoding switch and the stored MCCH message.
C3_DisabledBeforeMcch ==
  NeverAccepted =>
    \A t \in TTIs : \A d \in Decisions(t) : ~d.enable /\ ~d.is_mcch

\* No SIB13 accepted, yet an MCCH message with a channel is stored and MCCH
\* decoding is on, and the caller got a disabled decision for TTI 1
C3_Witness ==
  /\ NeverAccepted
  /\ mch_configured /\ mcch.nof_pmch_info > 0 /\ decode_mcch
  /\ ret.called /\ ret.tti = 1 /\ ~ret.cfg.enable /\ ~ret.cfg.is_mcch

\* The MCCH condition of a TTI, from the stored SIB13 and MCCH table
McchCondition(t) ==
  /\ (t \div 10) % sib13.mbsfn_area_info_list[1].mcch_cfg.mcch_repeat_period
       = sib13.mbsfn_area_info_list[1].mcch_cfg.mcch_offset
  /\ mcch_table[t % 10] = 1

\* C4: with MCCH configured and MCCH decoding enabled, the decision is
\* {enable, is_mcch, mcs = SIB13 signalling MCS, area id = SIB13 area id}
\* exactly at the TTIs whose frame number mod the repeat period is the MCCH
\* offset and whose subframe is set in the MCCH table; at every other TTI
\* is_mcch is false.
C4_McchDecision ==
  (mcch_configured /\ decode_mcch) =>
    \A t \in TTIs : \A d \in Decisions(t) :
      IF McchCondition(t)
        THEN /\ d.enable /\ d.is_mcch
             /\ d.mbsfn_mcs = sib13.mbsfn_area_info_list[1].mcch_cfg.sig_mcs
             /\ d.mbsfn_area_id = sib13.mbsfn_area_info_list[1].mbsfn_area_id
        ELSE ~d.is_mcch

\* Dedicated cell, repeat period 32, offset 0, table entry 0 set, decoding
\* on: the caller got an enabled MCCH decision for TTI 0
C4_Witness ==
  /\ cell.mbms_dedicated /\ mcch_configured /\ decode_mcch
  /\ sib13.mbsfn_area_info_list[1].mcch_cfg.mcch_repeat_period = 32
  /\ sib13.mbsfn_area_info_list[1].mcch_cfg.mcch_offset = 0
  /\ mcch_table[0] = 1
  /\ ret.called /\ ret.tti = 0 /\ ret.cfg.enable /\ ret.cfg.is_mcch

\* allocIndex of a TTI for channel i (1-based) as the claim writes it, an
\* integer
AllocIndex(i, t) ==
  LET periodFrame == (t \div 10) % mcch.pmch_info_list[i].mch_sched_period
      sf == t % 10
  IN  IF cell.mbms_dedicated
        THEN periodFrame * 10 + sf - (periodFrame \div 4) - 1
        ELSE periodFrame * 6 + (IF sf < 6 THEN sf - 1 ELSE sf - 3)

Min(S) == CHOOSE x \in S : \A y \in S : x <= y

\* The decision is that of the lowest channel of S, or disabled if S is empty
DecidesLowest(t, S) ==
  \A d \in Decisions(t) :
    IF S = {} THEN ~d.enable
              ELSE d.enable /\ ~d.is_mcch /\ d.area = Min(S) - 1

\* C5 as stated: where the MCCH check does not match and an MCCH message is
\* configured, the decision is enabled for the lowest channel i with
\* allocIndex(i) <= sf_alloc_end(i), allocIndex being the integer
\* periodFrame*10 + sf - floor(periodFrame/4) - 1 (dedicated) or
\* periodFrame*6 + (sf<6 ? sf-1 : sf-3) (mixed), and disabled if there is none.
C5_AsStated ==
  (mcch_configured /\ mch_configured) =>
    \A t \in TTIs :
      ~McchCondition(t) =>
        DecidesLowest(t, {i \in 1 .. mcch.nof_pmch_info :
                            AllocIndex(i, t) <= mcch.pmch_info_list[i].sf_alloc_end})

\* C5 (amended): the same, with allocIndex held in 32 unsigned bits: at
\* periodFrame = 0 and subframe 0 it is 2^32-1, not -1, and lies in no
\* channel's window.
C5_ChannelDecision ==
  (mcch_configured /\ mch_configured) =>
    \A t \in TTIs :
      ~McchCondition(t) =>
        DecidesLowest(t, {i \in 1 .. mcch.nof_pmch_info :
                            /\ AllocIndex(i, t) >= 0
                            /\ AllocIndex(i, t) <= mcch.pmch_info_list[i].sf_alloc_end})

\* Dedicated cell, one channel with period 32 and sf_alloc_end 9, no MCCH at
\* TTI 0: the caller got a disabled decision for TTI 0 (allocIndex wraps),
\* TTI 1 goes to channel 0 and TTI 11 (allocIndex 10) is disabled
C5_Witness ==
  /\ cell.mbms_dedicated /\ mcch_configured /\ mch_configured
  /\ mcch.nof_pmch_info = 1
  /\ mcch.pmch_info_list[1].mch_sched_period = 32
  /\ mcch.pmch_info_list[1].sf_alloc_end = 9
  /\ ~McchCondition(0) /\ ~McchCondition(1) /\ ~McchCondition(11)
  /\ ret.called /\ ret.tti = 0 /\ ~ret.cfg.enable
  /\ AllocIndex(1, 11) = 10
  /\ \A d \in Decisions(11) : ~d.enable
  /\ \A d \in Decisions(1) : d.enable /\ d.area = 0

\* The stored channels share one scheduling period and their end offsets
\* increase strictly
SharedPeriodIncreasing ==
  /\ mcch.nof_pmch_info >= 1
  /\ \A i \in 1 .. mcch.nof_pmch_info :
       mcch.pmch_info_list[i].mch_sched_period = mcch.pmch_info_list[1].mch_sched_period
  /\ \A i \in 1 .. mcch.nof_pmch_info : \A j \in 1 .. mcch.nof_pmch_info :
       i < j => mcch.pmch_info_list[i].sf_alloc_end < mcch.pmch_info_list[j].sf_alloc_end

PeriodLen == 10 * mcch.pmch_info_list[1].mch_sched_period

LastEnd == mcch.pmch_info_list[mcch.nof_pmch_info].sf_alloc_end

\* First TTIs of the scheduling periods that lie whole within 0 .. MaxTti
PeriodBases == {b \in 0 .. MaxTti : b % PeriodLen = 0 /\ b + PeriodLen - 1 <= MaxTti}

\* MBSFN-eligible TTIs of the scheduling period that starts at b
Eligible(b) == {t \in b .. (b + PeriodLen - 1) : is_mbsfn_subframe(t)}

\* and those of them the MCCH does not take
EligibleNoMcch(b) == {t \in Eligible(b) : ~McchCondition(t)}

\* The channel (1-based) whose window (e(i-1), e(i)] holds allocIndex a
WindowOf(a) ==
  Min({i \in 1 .. mcch.nof_pmch_info : a <= mcch.pmch_info_list[i].sf_alloc_end})

\* An eligible TTI that the MCCH does not take and whose allocIndex is within
\* the last end offset is assigned to the channel of its window
AssignedByWindow(b) ==
  \A t \in EligibleNoMcch(b) :
    AllocIndex(1, t) <= LastEnd =>
      \A d \in Decisions(t) :
        d.enable /\ ~d.is_mcch /\ d.area = WindowOf(AllocIndex(1, t)) - 1

\* C6 as stated: the MBSFN-eligible TTIs of a scheduling period that are not
\* taken by MCCH take the allocIndex values 0,1,2,... each exactly once in
\* increasing TTI order, and each one within the last end offset is assigned
\* to the channel of its window.
C6_AsStated ==
  (mcch_configured /\ mch_configured /\ SharedPeriodIncreasing) =>
    \A b \in PeriodBases :
      /\ \A t \in EligibleNoMcch(b) :
           AllocIndex(1, t) = Cardinality({u \in EligibleNoMcch(b) : u < t})
      /\ AssignedByWindow(b)

\* C6 (amended): the MBSFN-eligible TTIs of a scheduling period, those taken
\* by MCCH included, take the allocIndex values 0,1,2,... each exactly once
\* in increasing TTI order; each one that MCCH does not take and that is
\* within the last end offset is assigned to the channel of its window, and
\* a TTI taken by MCCH is assigned to no channel.
C6_Contiguous ==
  (mcch_configured /\ mch_configured /\ SharedPeriodIncreasing) =>
    \A b \in PeriodBases :
      /\ \A t \in Eligible(b) :
           AllocIndex(1, t) = Cardinality({u \in Eligible(b) : u < t})
      /\ AssignedByWindow(b)
      /\ \A t \in Eligible(b) \ EligibleNoMcch(b) :
           \A d \in Decisions(t) : d.enable => d.is_mcch

\* Mixed cell, channels (period 8, end 4) and (period 8, end 20), MCCH on the
\* eligible TTI 1: the caller got channel 1 for TTI 11 (allocIndex 6)
C6_Witness ==
  /\ ~cell.mbms_dedicated /\ mcch_configured /\ mch_configured
  /\ SharedPeriodIncreasing /\ mcch.nof_pmch_info = 2
  /\ PeriodBases # {}
  /\ McchCondition(1) /\ is_mbsfn_subframe(1)
  /\ AllocIndex(1, 11) = 6
  /\ ret.called /\ ret.tti = 11 /\ ret.cfg.enable /\ ret.cfg.area = 1

\* C21: when a TTI satisfies the MCCH condition but MCCH decoding is
\* disabled, the decision is disabled (enable and is_mcch false): the channel
\* check is not reached, even if a configured channel's window covers the TTI.
C21_McchSlotNotConsumed ==
  (mcch_configured /\ ~decode_mcch) =>
    \A t \in TTIs :
      McchCondition(t) => \A d \in Decisions(t) : ~d.enable /\ ~d.is_mcch

\* Decoding off, MCCH on TTI 1, and a stored channel whose window (allocIndex
\* 0 .. 9) covers TTI 1: the caller got a disabled decision for TTI 1
C21_Witness ==
  /\ mcch_configured /\ mch_configured /\ ~decode_mcch
  /\ McchCondition(1)
  /\ mcch.nof_pmch_info >= 1
  /\ AllocIndex(1, 1) = 0 /\ mcch.pmch_info_list[1].sf_alloc_end >= 0
  /\ ret.called /\ ret.tti = 1 /\ ~ret.cfg.enable /\ ~ret.cfg.is_mcch

\* The signalling coding scheme of the stored SIB13
SigMcs == sib13.mbsfn_area_info_list[1].mcch_cfg.sig_mcs

\* The first subframe of channel i's window, as the claim gives it
FirstOfWindow(i, t) ==
  \/ (i = 1 /\ (t \div 10) % mcch.pmch_info_list[1].mch_sched_period = 0 /\ t % 10 = 1)
  \/ (i > 1 /\ AllocIndex(i, t) = mcch.pmch_info_list[i - 1].sf_alloc_end + 1)

\* A TTI assigned to channel i uses the signalling coding scheme iff it is
\* the first subframe of the channel's window, and the channel's own data
\* coding scheme otherwise
SigRule ==
  \A t \in TTIs : \A d \in Decisions(t) :
    (d.enable /\ ~d.is_mcch) =>
      d.mbsfn_mcs = IF FirstOfWindow(d.area + 1, t)
                      THEN SigMcs
                      ELSE mcch.pmch_info_list[d.area + 1].data_mcs

\* The TTIs of the scheduling period at b that are MBSFN-eligible, not taken
\* by MCCH, assigned to channel i and given the signalling coding scheme
SigTtis(b, i) ==
  {t \in EligibleNoMcch(b) :
     \A d \in Decisions(t) : d.enable /\ d.area = i - 1 /\ d.mbsfn_mcs = SigMcs}

\* The stored data coding schemes all differ from the signalling one, so
\* that a decision shows which of the two it took
McsTellsApart ==
  \A i \in 1 .. mcch.nof_pmch_info : mcch.pmch_info_list[i].data_mcs # SigMcs

\* C22 as stated: the signalling rule, and hence with channels sharing one
\* scheduling period each channel has exactly one signalling subframe among
\* the MBSFN-eligible, non-MCCH TTIs of each scheduling period.
C22_AsStated ==
  (mcch_configured /\ mch_configured /\ McsTellsApart) =>
    /\ SigRule
    /\ SharedPeriodIncreasing =>
         \A b \in PeriodBases : \A i \in 1 .. mcch.nof_pmch_info :
           Cardinality(SigTtis(b, i)) = 1

\* C22 (amended): the signalling rule, and with channels sharing one
\* scheduling period and increasing end offsets each channel has, among the
\* MBSFN-eligible, non-MCCH TTIs of a scheduling period, the first subframe
\* of its window as its one signalling subframe if that subframe is
\* MBSFN-eligible and MCCH does not take it, and no signalling subframe
\* otherwise.
C22_Signalling ==
  (mcch_configured /\ mch_configured /\ McsTellsApart) =>
    /\ SigRule
    /\ SharedPeriodIncreasing =>
         \A b \in PeriodBases : \A i \in 1 .. mcch.nof_pmch_info :
           /\ SigTtis(b, i) = {t \in EligibleNoMcch(b) : FirstOfWindow(i, t)}
           /\ Cardinality(SigTtis(b, i)) <= 1
           /\ Cardinality({t \in Eligible(b) : FirstOfWindow(i, t)}) = 1

\* Mixed cell, channels (period 8, end 4) and (period 8, end 20), MCCH on TTI
\* 1: channel 0 has no signalling subframe in the period from TTI 0 and has
\* TTI 81 in the next one; channel 1 has TTI 8
C22_Witness ==
  /\ ~cell.mbms_dedicated /\ mcch_configured /\ mch_configured /\ McsTellsApart
  /\ SharedPeriodIncreasing /\ mcch.nof_pmch_info = 2
  /\ McchCondition(1)
  /\ SigTtis(0, 1) = {} /\ SigTtis(80, 1) = {81} /\ SigTtis(0, 2) = {8}
  /\ ret.called /\ ret.tti = 11 /\ ret.cfg.enable
  /\ ret.cfg.mbsfn_mcs = mcch.pmch_info_list[2].data_mcs

\* C26: for every configuration and every TTI the classifier calls a CAS
\* subframe, the scheduling engine returns no channel decision (enabled and
\* not MCCH).
C26_AgreesWithClassifier ==
  \A t \in TTIs :
    is_cas_subframe(t) => \A d \in Decisions(t) : ~(d.enable /\ ~d.is_mcch)

\* C27: set_mch_scheduling_info with a SIB13 that advertises zero MBSFN areas
\* leaves the Cell Model, the stored SIB13, the MCCH table and the
\* MCCH-configured flag as they were.
C27_ZeroAreasNoEffect ==
  [][\A s \in Sib13s :
       (s.nof_mbsfn_area_info = 0 /\ set_mch_scheduling_info(s)) =>
         UNCHANGED <<cell, sib13, mcch_table, mcch_configured>>]_vars

\* C24: reset() clears both flags; while no SIB13 has been accepted since,
\* every TTI gets a disabled decision, and only set_mch_scheduling_info with
\* a SIB13 of at least one area ends that; while set_mbsfn_config has not
\* been called since, an enabled decision is an MCCH decision, whatever MCCH
\* message is still stored, and only set_mbsfn_config ends that.
C24_ResetForgets ==
  /\ [][reset => (~mcch_configured' /\ ~mch_configured')]_vars
  /\ [](~mcch_configured =>
          \A t \in TTIs : \A d \in Decisions(t) : ~d.enable)
  /\ [][(~mcch_configured /\ mcch_configured') =>
          \E s \in Sib13s :
            s.nof_mbsfn_area_info > 0 /\ set_mch_scheduling_info(s)]_vars
  /\ [](~mch_configured =>
          \A t \in TTIs : \A d \in Decisions(t) : d.enable => d.is_mcch)
  /\ [][(~mch_configured /\ mch_configured') =>
          \E m \in McchMsgs : set_mbsfn_config(m)]_vars

\* A new SIB13 was accepted after a reset and the MCCH message of before the
\* reset is still stored: TTI 11 lies in its first channel's window and gets
\* a disabled decision, TTI 1 gets the MCCH decision
C24_Witness ==
  /\ mcch_configured /\ ~mch_configured /\ decode_mcch
  /\ mcch.nof_pmch_info >= 1
  /\ ~McchCondition(11) /\ AllocIndex(1, 11) <= mcch.pmch_info_list[1].sf_alloc_end
  /\ ret.called /\ ret.tti = 11 /\ ~ret.cfg.enable
  /\ McchCondition(1) /\ \A d \in Decisions(1) : d.enable /\ d.is_mcch

\* C13: the MCCH table has no true entry before any SIB13 is accepted, and
\* after an accepted SIB13 (one area or more, the first one used) it is the
\* table derived from that SIB13's subframe-allocation bitmap alone, by the
\* r16 rule iff its format flag is set and by the legacy rule otherwise; no
\* entry of an earlier table survives.
C13_TableFromSib13 ==
  LET c == sib13.mbsfn_area_info_list[1].mcch_cfg IN
  IF NeverAccepted
    THEN \A sf \in Subframes : mcch_table[sf] # 1
    ELSE mcch_table = IF c.sf_alloc_info_is_r16
                        THEN generate_mcch_table_r16(c.sf_alloc_info)
                        ELSE generate_mcch_table(c.sf_alloc_info)

\* The SIB13 that advertises two areas was accepted last: the table marks
\* subframe 6 alone (legacy bitmap 000100), whatever it marked before
C13_Witness ==
  /\ sib13.nof_mbsfn_area_info = 2
  /\ ~sib13.mbsfn_area_info_list[1].mcch_cfg.sf_alloc_info_is_r16
  /\ sib13.mbsfn_area_info_list[1].mcch_cfg.sf_alloc_info = 4
  /\ \A sf \in Subframes : mcch_table[sf] = (IF sf = 6 THEN 1 ELSE 0)
  /\ ret.called /\ ret.tti = 1

-----------------------------------------------------------------------------
(* Decisions the caller compares across calls *)

\* The configurations the caller compares decisions under
CallSib13s == {s \in Sib13s : s.mbsfn_area_info_list[1].mcch_cfg.mcch_repeat_period = 64}

CallMcchMsgs == {m \in McchMsgs : m.nof_pmch_info <= 1}

CallNext ==
  \/ \E s \in CallSib13s : set_mch_scheduling_info(s)
  \/ \E m \in CallMcchMsgs : set_mbsfn_config(m)
  \/ reset
  \/ \E d \in BOOLEAN : set_decode_mcch(d)
  \/ \E t \in CallTtis, a \in AreaIns, j \in Junk, k \in BOOLEAN :
        mbsfn_config_call(t, a, j, k)

CallSpec == Init /\ [][CallNext]_vars

\* C7: for a fixed configuration, two calls of mbsfn_config_for_tti with the
\* same TTI return the same decision (enable, is_mcch, area id, coding
\* scheme, channel index), whatever calls happen in between, and the call
\* changes no state of the Phy.
C7_TtiPure ==
  (prev.called /\ ret.called /\ prev.tti = ret.tti) => prev.cfg = ret.cfg

-----------------------------------------------------------------------------
(* Cell acquisition *)

AcqInit ==
  /\ cell = EmptyCell
  /\ mcch_table = EmptyTable
  /\ mcch_configured = FALSE
  /\ mch_configured = FALSE
  /\ decode_mcch = FALSE
  /\ sib13 = EmptySib13
  /\ mcch = EmptyMcch
  /\ mch_info = << >>
  /\ dests = << >>
  /\ ret = NoCall
  /\ prev = NoCall
  /\ cs = NoSearch
  /\ current_tti = 0
  /\ sync = NoSync
  /\ upd = Idle
  /\ obs = NoRead
  /\ mutex = 0
  /\ callers = [c \in Callers |-> "idle"]
  /\ api = RestHandler([enabled |-> FALSE, has_key |-> FALSE, key |-> ""])
  /\ reply = NoRequest
  /\ set_params_args = NoCall

AcqNext == \E in \in SearchInputs : cell_search(in)

AcqSpec == AcqInit /\ [][AcqNext]_vars

\* C9: in one cell_search() call the MIB decode is attempted first with the
\* cell assumed dedicated; whenever that attempt fails (any result but
\* success) the sync state is re-initialised and exactly one further
\* attempt is made with the cell assumed mixed before failure is reported;
\* there are never more than two attempts, and on success mbms_dedicated is
\* true iff the dedicated attempt succeeded.
C9_TwoAttempts ==
  (cs.called /\ Len(cs.attempts) >= 1) =>
    /\ cs.attempts[1].mode = "dedicated"
    /\ Len(cs.attempts) <= 2
    /\ cs.attempts[1].result # 1 =>
         /\ cs.inits = 1
         /\ Len(cs.attempts) = 2
         /\ cs.attempts[2].mode = "mixed"
    /\ cs.attempts[1].result = 1 => Len(cs.attempts) = 1
    /\ cs.ret => (cell.mbms_dedicated <=> cs.attempts[1].result = 1)

\* C10: whenever cell_search() returns false, the Cell Model equals its
\* value before the call.
C10_CellOnlyOnSuccess ==
  (cs.called /\ ~cs.ret) => cell = cs.cell_before

\* The cell as cell_search() composes it from the strongest cell found, the
\* mode of the attempt that decoded and the decoded MIB
ComposedCell ==
  [id |-> cs.in.fc.cell_id, cp |-> cs.in.fc.cp, frame_type |-> cs.in.fc.frame_type,
   mbms_dedicated |-> (cs.attempts[Len(cs.attempts)].mode = "dedicated"),
   nof_prb |-> cs.in.mib.nof_prb, nof_ports |-> cs.in.mib.nof_ports]

\* C11: cell_search() returns true only if the scan result was > 0, a MIB
\* was decoded and the composed cell passed validation; the Cell Model then
\* has the composed cell's identity, cyclic prefix, duplex mode, mode flag
\* and MIB resource-block and port counts, and its multicast resource-block
\* count equals its cell-wide one.
C11_TrueOnlyWhenAcquired ==
  (cs.called /\ cs.ret) =>
    /\ cs.in.scan > 0
    /\ Len(cs.attempts) >= 1
    /\ cs.attempts[Len(cs.attempts)].result = 1
    /\ cs.in.valid
    /\ \A f \in DOMAIN ComposedCell : cell[f] = ComposedCell[f]
    /\ cell.mbsfn_prb = cell.nof_prb
    /\ cell.mbsfn_prb = cs.in.mib.nof_prb

\* A search that fell back to the mixed attempt, decoded a 25-block MIB of
\* cell 2 and returned true
C11_Witness ==
  /\ cs.called /\ cs.ret
  /\ Len(cs.attempts) = 2 /\ cs.in.fc.cell_id = 2 /\ cs.in.mib.nof_prb = 25
  /\ cell.id = 2 /\ ~cell.mbms_dedicated /\ cell.mbsfn_prb = 25

-----------------------------------------------------------------------------
(* The Cell Model under acquisition, synchronisation and configuration *)

\* Reports under which a search ends: no cell, a dedicated cell of 50
\* resource blocks, a mixed cell of 25
CellSearchInputs ==
  {in \in SearchInputs :
     /\ in.fc.cell_id = 1 /\ in.scan >= 0 /\ in.prb1 = 0 /\ in.prb2 = 0
     /\ in.dec1 >= 0 /\ in.dec2 = 1 /\ in.valid
     /\ in.set_sync = 0 /\ in.set_mib = 0
     /\ in.mib.nof_prb = (IF in.dec1 = 1 THEN 50 ELSE 25)}

\* SIB13 messages by their PMCH bandwidth: none given, 25 resource blocks,
\* and 100 in a message that advertises no area
CellSib13s ==
  { [nof_mbsfn_area_info |-> 1,
     mbsfn_area_info_list |-> << AreaInfo(7, 32, 0, 32, FALSE, 2, bw) >>] :
       bw \in {0, 25} }
  \cup
  { [nof_mbsfn_area_info |-> 0,
     mbsfn_area_info_list |-> << AreaInfo(3, 64, 1, 16, FALSE, 13, 100) >>] }

\* Values handed to set_nof_mbsfn_prb (uint8_t)
PrbOverrides == {6, 100}

CellSyncInputs == {in \in SyncInputs : in.sfn_offset = 0 /\ in.mib.sfn = 8}

CellNext ==
  \/ \E in \in CellSearchInputs : cell_search(in)
  \/ \E in \in CellSyncInputs : synchronize_subframe(in)
  \/ \E s \in CellSib13s : set_mch_scheduling_info(s)
  \/ \E p \in PrbOverrides : set_nof_mbsfn_prb(p)

CellSpec == AcqInit /\ [][CellNext]_vars

\* C12: after a successful acquisition, the Cell's multicast resource-block
\* count is at most its cell-wide resource-block count, in every state
\* reached by cell_search, synchronize_subframe, set_mch_scheduling_info and
\* set_nof_mbsfn_prb.
C12_MbsfnPrbBound ==
  (cs.called /\ cs.ret) => cell.mbsfn_prb <= cell.nof_prb

-----------------------------------------------------------------------------
(* Subframe synchronisation on an acquired cell *)

SyncNext == \E in \in SyncInputs : synchronize_subframe(in)

SyncSpec == Init /\ [][SyncNext]_vars

\* The frame number the claim's rule gives for a decoded MIB
ClaimedSfn(in) ==
  IF cell.mbms_dedicated THEN (in.mib.sfn + 4 * in.sfn_offset) % 1024
                         ELSE (in.mib.sfn + in.sfn_offset) % 1024

\* C20: synchronize_subframe() returns true exactly when the sample block
\* was aligned, the subframe index is 0 and the MIB decoded, and so returns
\* false on any sync or decode failure; on true the current TTI is SFN*10;
\* on false the current TTI and the Cell Model are unchanged.
C20_SyncOutcome ==
  [][\A in \in SyncInputs :
       synchronize_subframe(in) =>
         /\ sync'.ret <=> (in.zerocopy = 1 /\ in.sfidx = 0 /\ in.n = 1)
         /\ (in.zerocopy < 0 \/ in.n # 1) => ~sync'.ret
         /\ sync'.ret => current_tti' = ClaimedSfn(in) * 10
         /\ ~sync'.ret => (current_tti' = current_tti /\ cell' = cell)]_vars

\* A dedicated cell on which a MIB with frame number 1020 decoded at offset 3
\* (frame 8 after wrapping), then an aligned subframe of index 3 returned
\* false and left the TTI at 80
C20_Witness ==
  /\ cell.mbms_dedicated /\ current_tti = 80
  /\ sync.called /\ ~sync.ret /\ sync.in.zerocopy = 1 /\ sync.in.sfidx = 3

-----------------------------------------------------------------------------
(* The frame number of a decoded MIB, in cell_search and in
   synchronize_subframe *)

\* Decode offsets, negative ones and ones beyond a frame-number cycle included
SfnOffsets ==
  {-1048577, -1025, -1024, -257, -5, -1, 0, 1, 3, 255, 1024, 1048576}

\* Successful searches that end in a dedicated (first attempt) or a mixed
\* (second attempt) cell
SfnSearchInputs ==
  { [scan |-> 1, fc |-> fc, prb1 |-> 0, dec1 |-> d1, prb2 |-> 0,
     dec2 |-> 1 - d1, mib |-> [nof_prb |-> 50, nof_ports |-> 1],
     sfn |-> f, sfn_offset |-> o, valid |-> TRUE, set_sync |-> 0,
     set_mib |-> 0] :
       fc \in {c \in FoundCells : c.cell_id = 1}, d1 \in {0, 1},
       f \in {0, 1023}, o \in {-1, 3} }

\* Aligned subframes of index 0 whose MIB decodes
SfnSyncInputs ==
  { [zerocopy |-> 1, sfidx |-> 0, n |-> 1, mib |-> [nof_prb |-> 50, sfn |-> f],
     sfn_offset |-> o] : f \in {0, 512, 1023}, o \in {-1025, -1, 0, 3} }

SfnNext ==
  \/ \E in \in SfnSearchInputs : cell_search(in)
  \/ \E in \in SfnSyncInputs : synchronize_subframe(in)

SfnSpec == Init /\ [][SfnNext]_vars

\* The frame number the claim gives for MIB frame number s and offset o
SfnRule(dedicated, s, o) ==
  IF dedicated THEN (s + 4 * o) % 1024 ELSE (s + o) % 1024

\* C23: for every MIB frame number s in 0..1023 and every offset o, negative
\* ones included, the frame number computed in 32-bit unsigned arithmetic
\* by cell_search and synchronize_subframe is (s + 4o) mod 1024 in a
\* dedicated cell and (s + o) mod 1024 in a mixed cell, a value in 0..1023;
\* the TTI synchronize_subframe stores is ten times it, a multiple of 10 in
\* 0..10230.
C23_SfnWraps ==
  /\ [](\A dedicated \in BOOLEAN : \A s \in 0 .. 1023 : \A o \in SfnOffsets :
          /\ sfn_of(dedicated, s, o) = SfnRule(dedicated, s, o)
          /\ sfn_of(dedicated, s, o) \in 0 .. 1023)
  /\ []((cs.called /\ cs.sfn # -1) =>
          /\ cs.sfn = SfnRule(cs.attempts[Len(cs.attempts)].mode = "dedicated",
                              cs.in.sfn, cs.in.sfn_offset)
          /\ cs.sfn \in 0 .. 1023)
  /\ [][\A in \in SfnSyncInputs :
          synchronize_subframe(in) =>
            current_tti' = 10 * SfnRule(cell.mbms_dedicated, in.mib.sfn,
                                        in.sfn_offset)]_vars
  /\ [](current_tti % 10 = 0 /\ current_tti \in 0 .. 10230)

\* A search that decoded frame number 0 at offset -1 in dedicated mode
\* logged frame 1020, and a later MIB with frame number 0 at offset -1025
\* set the TTI to 10200
C23_Witness ==
  /\ cs.called /\ cs.ret /\ cs.in.sfn = 0 /\ cs.in.sfn_offset = -1
  /\ cs.sfn = 1020
  /\ cell.mbms_dedicated
  /\ sync.called /\ sync.ret /\ sync.in.mib.sfn = 0 /\ sync.in.sfn_offset = -1025
  /\ current_tti = 10200

------------------------------------------------------------------------------
(* The channel registry: set_mbsfn_config, mch_info(), set_dest_for_lcid *)

\* TMGIs: country codes, network codes of two and of three digits (the
\* third array element of a two-digit code is not part of it) and 3-byte
\* service identifiers
Mccs == { <<9, 0, 1>>, <<2, 6, 2>>, <<0, 0, 0>>, <<9, 9, 9>> }

Mncs == { [digits |-> <<5, 6, 0>>, nof |-> 2], [digits |-> <<0, 1, 7>>, nof |-> 2],
          [digits |-> <<1, 2, 3>>, nof |-> 3], [digits |-> <<9, 9, 9>>, nof |-> 3] }

ServiceIds == { <<0, 0, 1>>, <<171, 205, 239>>, <<0, 0, 0>>, <<255, 255, 255>> }

Tmgi(mcc, mnc, sid) ==
  [mcc |-> mcc, mnc |-> mnc.digits, nof_mnc_digits |-> mnc.nof, serviced_id |-> sid]

Tmgis == { Tmgi(mcc, mnc, sid) : mcc \in Mccs, mnc \in Mncs, sid \in ServiceIds }

\* One element of pmch_info_t::mbms_session_info_list
Session(lcid, t) == [lc_ch_id |-> lcid, tmgi |-> t]

Tmgi901_56 == Tmgi(<<9, 0, 1>>, [digits |-> <<5, 6, 0>>, nof |-> 2], <<0, 0, 1>>)

Tmgi262_123 == Tmgi(<<2, 6, 2>>, [digits |-> <<1, 2, 3>>, nof |-> 3], <<171, 205, 239>>)

\* MCCH messages with sessions: one channel with one session, for every
\* TMGI; one channel with two sessions; two channels with two and one; and
\* one without channels
RegMcchMsgs ==
  { McchMsg(<< PmchInfoWith(8, 9, 5, << Session(1, t) >>) >>) : t \in Tmgis }
  \cup
  { McchMsg(<< >>),
    McchMsg(<< PmchInfoWith(8, 9, 7, << Session(2, Tmgi262_123),
                                        Session(1, Tmgi901_56) >>) >>),
    McchMsg(<< PmchInfoWith(8, 9, 5, << Session(1, Tmgi901_56),
                                        Session(2, Tmgi262_123) >>),
               PmchInfoWith(8, 20, 9, << Session(1, Tmgi262_123) >>) >>) }

\* Destinations the gateway registers, for channel 0 and 1 and logical
\* channel 1
RegDests == { "udp://239.11.4.50:9988" }

RegNext ==
  \/ \E m \in RegMcchMsgs : set_mbsfn_config(m)
  \/ \E i \in {0, 1}, d \in RegDests : set_dest_for_lcid(i, 1, d)

RegSpec == Init /\ [][RegNext]_vars

\* The TMGI strings of the reporting view, with the TMGI each was built from
ViewTmgis ==
  UNION { { [str |-> mch_info[i].mtchs[j].tmgi,
             of  |-> mcch.pmch_info_list[i].mbms_session_info_list[j].tmgi] :
              j \in DOMAIN mch_info[i].mtchs } : i \in DOMAIN mch_info }

\* The twelve half-bytes the claim lists for a TMGI, in order
ClaimedNibbles(t) ==
  << t.serviced_id[1] \div 16, t.serviced_id[1] % 16,
     t.serviced_id[2] \div 16, t.serviced_id[2] % 16,
     t.serviced_id[3] \div 16, t.serviced_id[3] % 16,
     t.mcc[2], t.mcc[1],
     IF t.nof_mnc_digits = 2 THEN 15 ELSE t.mnc[3], t.mcc[3],
     t.mnc[2], t.mnc[1] >>

HexDigits ==
  {"0", "1", "2", "3", "4", "5", "6", "7", "8", "9", "a", "b", "c", "d", "e", "f"}

\* C14: for every session of the MCCH message, the TMGI string is the
\* 3-byte service identifier as 6 hex digits (byte 0 most significant)
\* followed by the bytes (MCC digit 2 << 4 | MCC digit 1), ((MNC digit 3, or
\* 0xF for a 2-digit MNC) << 4 | MCC digit 3) and (MNC digit 2 << 4 | MNC
\* digit 1), two hex digits each.
C14_TmgiLayout ==
  \A v \in ViewTmgis :
    /\ Len(v.str) = Len(ClaimedNibbles(v.of))
    /\ \A k \in DOMAIN v.str : v.str[k] = HexDigit(ClaimedNibbles(v.of)[k])

\* The message with one session of MCC 901, MNC 56, service id 0x000001 was
\* set: the view reads 000001 09f165
C14_Witness ==
  /\ mcch.nof_pmch_info = 1
  /\ mcch.pmch_info_list[1].nof_mbms_session_info = 1
  /\ mcch.pmch_info_list[1].mbms_session_info_list[1].tmgi = Tmgi901_56
  /\ mch_info[1].mtchs[1].tmgi
       = << "0", "0", "0", "0", "0", "1", "0", "9", "f", "1", "6", "5" >>

\* C15 as stated: every TMGI string built by set_mbsfn_config has 16 hex
\* digits.
C15_AsStated ==
  \A v \in ViewTmgis :
    Len(v.str) = 16 /\ \A k \in DOMAIN v.str : v.str[k] \in HexDigits

\* C15 (amended): every TMGI string built by set_mbsfn_config has 12 hex
\* digits, for every MCC, every 2- or 3-digit MNC and every 3-byte service
\* identifier.
C15_TwelveHexDigits ==
  \A v \in ViewTmgis :
    Len(v.str) = 12 /\ \A k \in DOMAIN v.str : v.str[k] \in HexDigits

\* The view holds the strings of a 3-digit MNC with service id 0xabcdef and
\* of a 2-digit MNC with service id 0x000001, in two channels
C15_Witness ==
  /\ Len(mch_info) = 2 /\ Len(mch_info[1].mtchs) = 2
  /\ \E v \in ViewTmgis : v.of.nof_mnc_digits = 3 /\ v.of.serviced_id = <<171, 205, 239>>
  /\ \E v \in ViewTmgis : v.of.nof_mnc_digits = 2 /\ v.of.serviced_id = <<0, 0, 1>>

\* C16: after every set_mbsfn_config(m) the reporting view has exactly one
\* entry per PMCH info of m, in declared order, each with that channel's
\* data coding scheme and exactly one session entry per MBMS session, in
\* declared order, with its logical-channel id; nothing of an earlier view
\* remains.
C16_ViewRebuilt ==
  /\ Len(mch_info) = mcch.nof_pmch_info
  /\ \A i \in DOMAIN mch_info :
       LET p == mcch.pmch_info_list[i] IN
       /\ mch_info[i].mcs = p.data_mcs
       /\ Len(mch_info[i].mtchs) = p.nof_mbms_session_info
       /\ \A j \in DOMAIN mch_info[i].mtchs :
            mch_info[i].mtchs[j].lcid = p.mbms_session_info_list[j].lc_ch_id

\* The one-channel message with sessions of logical channels 2 and 1 (coding
\* scheme 7) is the current one, and the view lists just those, in that order
C16_Witness ==
  /\ mch_configured /\ mcch.nof_pmch_info = 1
  /\ mcch.pmch_info_list[1].data_mcs = 7
  /\ Len(mch_info) = 1 /\ mch_info[1].mcs = 7
  /\ Len(mch_info[1].mtchs) = 2
  /\ mch_info[1].mtchs[1].lcid = 2 /\ mch_info[1].mtchs[2].lcid = 1

\* The Destination map's entry for (channel index, logical-channel id), the
\* empty string when there is none
DestOf(d, idx, lcid) ==
  IF idx \in DOMAIN d /\ lcid \in DOMAIN d[idx] THEN d[idx][lcid] ELSE ""

\* C17: when set_mbsfn_config builds the view, each session's destination
\* is the Destination map's entry for (channel index, logical-channel id),
\* the empty string when there is none, and the call leaves the Destination
\* map (its keys and its values) unchanged.
C17_LookupReadOnly ==
  [][\A m \in RegMcchMsgs :
       set_mbsfn_config(m) =>
         /\ \A i \in DOMAIN mch_info' : \A j \in DOMAIN mch_info'[i].mtchs :
              mch_info'[i].mtchs[j].dest = DestOf(dests, i - 1, mch_info'[i].mtchs[j].lcid)
         /\ dests' = dests]_vars

\* C28 as stated: in every state the destination mch_info() reports for a
\* session equals the Destination map's current entry for (channel index,
\* logical-channel id), the empty string when there is none.
C28_AsStated ==
  \A i \in DOMAIN mch_info : \A j \in DOMAIN mch_info[i].mtchs :
    mch_info[i].mtchs[j].dest = DestOf(dests, i - 1, mch_info[i].mtchs[j].lcid)

\* C28 (amended): the destination mch_info() reports for a session is the
\* Destination map's entry for (channel index, logical-channel id) as it was
\* when set_mbsfn_config last built the view; set_dest_for_lcid stores the
\* destination in the map and leaves the view as it was, so it is reported
\* only after the next MCCH message.
C28_DestAsOfLastMcch ==
  [][/\ \A m \in RegMcchMsgs :
          set_mbsfn_config(m) =>
            \A i \in DOMAIN mch_info' : \A j \in DOMAIN mch_info'[i].mtchs :
              mch_info'[i].mtchs[j].dest =
                DestOf(dests, i - 1, mch_info'[i].mtchs[j].lcid)
     /\ \A i \in {0, 1}, d \in RegDests :
          set_dest_for_lcid(i, 1, d) =>
            /\ mch_info' = mch_info
            /\ DestOf(dests', i, 1) = d]_vars

\* The view reports a destination set before the last MCCH message for the
\* first channel's session, and still the empty string for the second
\* channel's session, whose destination was set after it
C28_Witness ==
  /\ Len(mch_info) = 2
  /\ Len(mch_info[1].mtchs) >= 1 /\ Len(mch_info[2].mtchs) >= 1
  /\ mch_info[1].mtchs[1].lcid = 1 /\ mch_info[2].mtchs[1].lcid = 1
  /\ mch_info[1].mtchs[1].dest = "udp://239.11.4.50:9988"
  /\ DestOf(dests, 0, 1) = "udp://239.11.4.50:9988"
  /\ mch_info[2].mtchs[1].dest = ""
  /\ DestOf(dests, 1, 1) = "udp://239.11.4.50:9988"

-----------------------------------------------------------------------------
(* set_mbsfn_config on the processing path, statement by statement, with the
   REST listener's thread reading mch_info(). Neither Phy nor
   RestHandler::get takes a lock, so the read may fall between any two
   statements. *)

\* Phy.cpp:262-263
set_mbsfn_config_begin(m) ==
  /\ upd.pc = "idle"
  /\ mcch' = m
  /\ mch_configured' = TRUE
  /\ upd' = [pc |-> "clear", before |-> mch_info]
  /\ UNCHANGED <<cell, mcch_table, mcch_configured, decode_mcch, sib13,
                 mch_info, dests, ret, prev, cs, obs>>
  /\ UNCHANGED <<syncvars, lockvars, restvars>>

\* Phy.cpp:265-266
set_mbsfn_config_clear ==
  /\ upd.pc = "clear"
  /\ mch_info' = mch_info_clear(mch_info)
  /\ upd' = IF mcch.nof_pmch_info = 0
              THEN Idle
              ELSE [pc |-> "push", i |-> 1, before |-> upd.before]
  /\ UNCHANGED <<cell, mcch_table, mcch_configured, mch_configured, decode_mcch,
                 sib13, mcch, dests, ret, prev, cs, obs>>
  /\ UNCHANGED <<syncvars, lockvars, restvars>>

\* Phy.cpp:267-300, one turn of the outer loop: the entry of channel upd.i
\* is composed in a local and pushed
set_mbsfn_config_push ==
  /\ upd.pc = "push"
  /\ mch_info' = Append(mch_info, build_mch_info(dests, mcch)[upd.i])
  /\ dests' = dests_after_sessions(dests, mcch, upd.i,
                                   mcch.pmch_info_list[upd.i].nof_mbms_session_info)
  /\ upd' = IF upd.i = mcch.nof_pmch_info THEN Idle ELSE [upd EXCEPT !.i = @ + 1]
  /\ UNCHANGED <<cell, mcch_table, mcch_configured, mch_configured, decode_mcch,
                 sib13, mcch, ret, prev, cs, obs>>
  /\ UNCHANGED <<syncvars, lockvars, restvars>>

\* RestHandler::get, path mch_info (RestHandler.cpp:150-167): the view is
\* copied as it stands. obs keeps it, with the view before the update under
\* way and the one that update ends in (both the current view when no update
\* is under way).
get_mch_info ==
  /\ obs' = [called |-> TRUE, view |-> mch_info,
             before |-> IF upd.pc = "idle" THEN mch_info ELSE upd.before,
             after |-> IF upd.pc = "idle" THEN mch_info
                       ELSE build_mch_info(dests, mcch)]
  /\ UNCHANGED <<phyvars, ret, prev, cs, upd>>
  /\ UNCHANGED <<syncvars, lockvars, restvars>>

ConcMcchMsgs == {m \in RegMcchMsgs : m.nof_pmch_info # 1} \cup
  { McchMsg(<< PmchInfoWith(8, 9, 7, << Session(2, Tmgi262_123),
                                        Session(1, Tmgi901_56) >>) >>) }

ConcNext ==
  \/ \E m \in ConcMcchMsgs : set_mbsfn_config_begin(m)
  \/ set_mbsfn_config_clear
  \/ set_mbsfn_config_push
  \/ get_mch_info

ConcSpec == Init /\ [][ConcNext]_vars

\* C18: configuration updates are atomic for every observer: no reporting
\* read concurrent with set_mbsfn_config observes a cleared or partially
\* rebuilt channel registry; what a read gets is the view before the update
\* or the view after it.
C18_AtomicUpdates ==
  obs.called => (obs.view = obs.before \/ obs.view = obs.after)

-----------------------------------------------------------------------------
(* The subframe buffer of the CAS frame processor and its lock *)

\* CasFrameProcessor::rx_buffer(), entered: the caller is at _mutex.lock()
rx_buffer_call(c) ==
  /\ callers[c] = "idle"
  /\ callers' = [callers EXCEPT ![c] = "waiting"]
  /\ UNCHANGED <<phyvars, ret, prev, cs, syncvars, concvars, mutex, restvars>>

\* CasFrameProcessor::rx_buffer(), returning: std::mutex::lock() comes back
\* once the mutex is free, and the caller holds it and the buffer handle
rx_buffer_return_mut(c) ==
  /\ callers[c] = "waiting"
  /\ mutex' = c
  /\ callers' = [callers EXCEPT ![c] = "owner"]
  /\ UNCHANGED <<phyvars, ret, prev, cs, syncvars, concvars, restvars>>

rx_buffer_return(c) ==
  /\ callers[c] = "waiting"
  /\ mutex = 0
  /\ mutex' = c
  /\ callers' = [callers EXCEPT ![c] = "owner"]
  /\ UNCHANGED <<phyvars, ret, prev, cs, syncvars, concvars, restvars>>

\* CasFrameProcessor::unlock(), by the caller that obtained the buffer
unlock(c) ==
  /\ callers[c] = "owner"
  /\ mutex' = 0
  /\ callers' = [callers EXCEPT ![c] = "idle"]
  /\ UNCHANGED <<phyvars, ret, prev, cs, syncvars, concvars, restvars>>

LockNext ==
  \/ \E c \in Callers : rx_buffer_call(c)
  \/ \E c \in Callers : rx_buffer_return(c)
  \/ \E c \in Callers : unlock(c)

\* A lock() on a free mutex does come back for one of the callers in it
LockSpec ==
  Init /\ [][LockNext]_vars /\ WF_vars(\E c \in Callers : rx_buffer_return(c))

Owners == {c \in Callers : callers[c] = "owner"}

Waiting == {c \in Callers : callers[c] = "waiting"}

\* C19: the subframe buffer has at most one owner at any time: between a
\* caller's rx_buffer() and its unlock() no other caller's rx_buffer()
\* returns, a second caller stays blocked meanwhile, and once unlock() has
\* been called a waiting caller proceeds.
C19_SingleOwner ==
  /\ [](Cardinality(Owners) <= 1)
  /\ [](\A c \in Owners : mutex = c)
  /\ [][\A c \in Callers : rx_buffer_return(c) => Owners = {}]_vars
  /\ ((mutex = 0 /\ Waiting # {}) ~> (Owners # {}))

\* Caller 1 holds the buffer while callers 2 and 3 are blocked in rx_buffer()
C19_Witness ==
  /\ mutex = 1 /\ callers[1] = "owner"
  /\ callers[2] = "waiting" /\ callers[3] = "waiting"

-----------------------------------------------------------------------------
(* The REST handler with and without the API key requirement *)

RestPaths ==
  { << >>, << "status" >>, << "sdr_params" >>, << "mch_info" >>,
    << "favicon.ico" >> }

\* Authorization headers: none, the right one for either key, and near
\* misses (prefix only, key only, lower-case scheme, trailing blank)
AuthHeaders ==
  { "", "Bearer ", "Bearer s3cret", "Bearer " \o DefaultApiKey, "s3cret",
    "bearer s3cret", "Bearer s3cret " }

SdrReadings ==
  { [antenna |-> "LNAW", frequency |-> 667000000, gain |-> 40,
     sample_rate |-> 7680000, filter_bw |-> 5000000] }

JsonBodies ==
  { [frequency |-> 627000000],
    [antenna |-> "LNAH", gain |-> 25] }

RestInit ==
  /\ cell \in AcquiredCells
  /\ mcch_table = EmptyTable
  /\ mcch_configured = FALSE
  /\ mch_configured = FALSE
  /\ decode_mcch = FALSE
  /\ sib13 = EmptySib13
  /\ mcch = EmptyMcch
  /\ mch_info = << >>
  /\ dests = << >>
  /\ ret = NoCall
  /\ prev = NoCall
  /\ cs = NoSearch
  /\ current_tti = 0
  /\ sync = NoSync
  /\ upd = Idle
  /\ obs = NoRead
  /\ mutex = 0
  /\ callers = [c \in Callers |-> "idle"]
  /\ api \in {RestHandler(c) : c \in ApiConfigs}
  /\ reply = NoRequest
  /\ set_params_args = NoCall

RestNext ==
  \/ \E p \in RestPaths, a \in AuthHeaders, rd \in SdrReadings :
       rest_get(p, a, rd)
  \/ \E p \in RestPaths, a \in AuthHeaders, j \in JsonBodies, rd \in SdrReadings :
       rest_put(p, a, j, rd)

RestSpec == RestInit /\ [][RestNext]_vars

\* C25: with the API key requirement on, a GET or PUT whose Authorization
\* header is not "Bearer " followed by the key is answered Unauthorized,
\* returns no data, leaves the state as it was and, for PUT sdr_params, does
\* not call the set-parameters callback.
C25_UnauthorizedNoEffect ==
  [][/\ \A p \in RestPaths, a \in AuthHeaders, rd \in SdrReadings :
          (api.require_bearer_token /\ a # "Bearer " \o api.api_key
             /\ rest_get(p, a, rd)) =>
            /\ reply'.status = "Unauthorized" /\ reply'.body = NoBody
            /\ UNCHANGED <<phyvars, set_params_args, api>>
     /\ \A p \in RestPaths, a \in AuthHeaders, j \in JsonBodies,
           rd \in SdrReadings :
          (api.require_bearer_token /\ a # "Bearer " \o api.api_key
             /\ rest_put(p, a, j, rd)) =>
            /\ reply'.status = "Unauthorized" /\ reply'.body = NoBody
            /\ UNCHANGED <<phyvars, set_params_args, api>>]_vars

\* With the key s3cret required, a PUT sdr_params with the right header
\* called the callback, and a later PUT sdr_params carrying the key without
\* the scheme was answered Unauthorized
C25_Witness ==
  /\ api.require_bearer_token /\ api.api_key = "s3cret"
  /\ set_params_args.called /\ set_params_args.args.frequency = 627000000
  /\ reply.called /\ reply.method = "PUT" /\ reply.path = << "sdr_params" >>
  /\ reply.auth = "s3cret" /\ reply.status = "Unauthorized"

=============================================================================
